---- MODULE Spec2Model ----
(***************************************************************************)
(* A model of one crawl session of geo-platform/crawler/crawl_site.py:     *)
(* read_robots, parse_sitemaps, the seeding of the BFS queue, the crawl    *)
(* loop of crawl_site and the scoring/summary that follows it.             *)
(*                                                                         *)
(* The web site is the environment: every response (robots.txt, a sitemap  *)
(* document, a page) is drawn from a small set at the moment the code      *)
(* issues the request.                                                     *)
(*                                                                         *)
(* Spec and FairSpec are the crawl session.  The other specifications     *)
(* take one part on its own: LinkSpec find_links and the edge rows of one  *)
(* page, ScoreSpec the two readiness scorers on any aggregated signals,    *)
(* FaqSpec detect_faq on any page, MainSpec the __main__ block from the    *)
(* intake file to the crawl loop, ApiSpec the API inventory written after  *)
(* the loop.  Two parts of geo-platform/agents are modelled beside the     *)
(* crawler: MonitorSpec is the HealthChecker task of shared/monitoring.py  *)
(* and ConfSpec the overall confidence of coordinator_agent/agent.py.      *)
(***************************************************************************)
EXTENDS Integers, Sequences, FiniteSets, TLC

(***************************************************************************)
(* Bounds of the model.                                                    *)
(***************************************************************************)
\* max_pages of a session is drawn from 0..MaxPagesBound
MaxPagesBound == 3
\* max_depth of a session is drawn from 0..MaxDepthBound
MaxDepthBound == 1
\* a page carries at most MaxAnchors <a href> elements
MaxAnchors == 2
\* stands for the interpreter's recursion limit (sys.getrecursionlimit())
RecursionLimit == 3
\* a scorer called on its own is given at most MaxScored pages and rows, and
\* up to MaxScored endpoints, JSON endpoints and forms beyond its caps
MaxScored == 2
\* detect_faq is given a page with at most MaxScripts ld+json script blocks
MaxScripts == 2
\* and a visible text of at most MaxLines non-empty lines
MaxLines == 2
\* the pages of a session give at most MaxHints API endpoint hints
MaxHints == 3
\* the coordinator combines at most MaxResponses agent responses
MaxResponses == 2
\* and at most MaxResolutions conflict resolutions
MaxResolutions == 2

(***************************************************************************)
(* URLs.  A URL is a host and a path (a sequence of segments); an href     *)
(* found in a page also carries a fragment, which norm_url removes.        *)
(***************************************************************************)
U(h, p) == [host |-> h, path |-> p]

\* the `domain` argument of crawl_site ("https://h")
domain == [host |-> "h"]

Home  == U("h", <<>>)
PageA == U("h", <<"a">>)
PageB == U("h", <<"b">>)
Ext   == U("x", <<>>)
PageURLs == {Home, PageA, PageB, Ext}

SM1 == U("h", <<"sitemap.xml">>)
SM2 == U("h", <<"sm2.xml">>)
SitemapURLs == {SM1, SM2}

Href(u, f) == [host |-> u.host, path |-> u.path, frag |-> f]
\* the hrefs a page of the site may carry
Hrefs == {Href(PageA, "top"), Href(PageB, ""), Href(Ext, "")}

\* norm_url: the href resolved against the page, its fragment removed
norm_url(href) == U(href.host, href.path)

\* same_host: the two netlocs, lower-cased, are equal (hosts here are lower case)
same_host(a, b) == a.host = b.host

\* urljoin(domain, p) for an absolute path p
urljoin(d, p) == U(d.host, p)

\* domain.rstrip("/") + "/"
homepage == U(domain.host, <<>>)

(***************************************************************************)
(* Small helpers.                                                          *)
(***************************************************************************)
Range(s) == {s[i] : i \in 1..Len(s)}

\* every ordering of a finite set: list(a_set) iterates in an arbitrary order
Orderings(S) ==
  {s \in [1..Cardinality(S) -> S] : \A i, j \in 1..Cardinality(S) : i # j => s[i] # s[j]}

\* list(dict.fromkeys(s)): duplicates removed, first occurrences kept in order
RECURSIVE Dedup(_)
Dedup(s) ==
  IF s = <<>> THEN <<>>
  ELSE LET r == Dedup(SubSeq(s, 1, Len(s) - 1))
           x == s[Len(s)]
       IN IF x \in Range(r) THEN r ELSE Append(r, x)

IsPrefix(p, s) == Len(p) <= Len(s) /\ SubSeq(s, 1, Len(p)) = p

(***************************************************************************)
(* The inputs the environment and the intake may supply.                   *)
(***************************************************************************)
\* the robots.txt files the site may serve: the Disallow prefixes of the "*"
\* entry, and the values of the Sitemap: lines in file order
RobotsFiles ==
  { [disallow |-> {}, sitemaps |-> <<>>],
    [disallow |-> {<<"b">>}, sitemaps |-> <<SM1, SM2>>] }
\* the robots.txt file rp.read() may get when it repeats a request that failed
RetriedRobotsFiles == { [disallow |-> {<<"b">>}, sitemaps |-> <<SM1, SM2>>] }
\* the intake: ctx["sitemap_urls"] and the priority paths derived from it
IntakeChoices ==
  { [sitemap_urls |-> {}, priority_paths |-> <<>>],
    [sitemap_urls |-> {SM2}, priority_paths |-> << <<"b">> >>] }
\* the <loc> values of a urlset document
UrlsetChoices == { {PageA, Ext}, {PageA, PageB} }
\* the <loc> values of a sitemapindex document, in document order
IndexChoices == { <<SM1>>, <<SM1, SM2>> }
\* the <a href> values of a page, in document order
AnchorLists == UNION { [1..n -> Hrefs] : n \in 0..MaxAnchors }

NoDepth == -1
NoPage == [host |-> "", path |-> <<>>]
NoSummary == [written |-> FALSE]
\* crawl_site is called with a ctx; no intake file is involved
NoIntake == [on_disk |-> "none"]

VARIABLES
  phase,             \* INIT, SEEDING, CRAWLING, SCORING, DONE; ABORTED on an uncaught exception
                     \* (LINKS, EDGES_WRITTEN: one page between find_links and its edge rows;
                     \* SCORER, FAQ, MAIN, API, MONITOR, CONFIDENCE and what follows them: the
                     \* part that a specification other than Spec takes on its own)
  max_pages,         \* crawl_site(max_pages=...)
  max_depth,         \* crawl_site(max_depth=...)
  priority_paths,    \* crawl_site(priority_paths=...)
  provided_sitemaps, \* ctx["sitemap_urls"]
  rp,                \* the RobotFileParser
  robots_found,      \* robots_ok as returned by read_robots
  robots_fetch,      \* history: "ok" or "failed", the fetch of /robots.txt by read_robots
  sitemap_urls,      \* the set sitemap_urls of crawl_site
  sm_stack,          \* the call stack of parse_sitemaps
  sm_fetched,        \* history: sitemap URLs fetched in the resolution pass under way
  sm_refetched,      \* history: a sitemap URL was fetched a second time in that pass
  sm_skipped,        \* history: sitemap URLs of that pass whose fetch or parse failed
  sm_listed,         \* history: the <loc>s of the sitemap indexes read in that pass
  sm_yield,          \* history: the <loc>s of the urlsets read
  sm_read,           \* history: some sitemap document was fetched and parsed
  seed_urls,         \* the set seed_urls of crawl_site
  q,                 \* the FIFO queue q
  seen,              \* the visited set
  depth_map,         \* depth_map, NoDepth where a URL has no entry
  count,             \* the processed-page counter
  pages,             \* the lines of pages.jsonl, in the order written
  fetches,           \* history: page fetches issued by the crawl loop, per URL
  found_on,          \* history: the page whose links gave a URL its depth_map entry
  lk_page,           \* find_links(soup, base_url): the page, base_url
  lk_anchors,        \* the <a href> values of its soup
  lk_rows,           \* the rows the "write edges" loops wrote for it
  sc_call,           \* a call of one of the two readiness scorers: its arguments
  sc_result,         \* what the call returned
  fq_scripts,        \* detect_faq(soup, text): the ld+json script blocks of soup
  fq_lines,          \* the non-empty lines of text
  fq_result,         \* what the call returned
  ap_discovered,     \* api_inventory["discovered"] as the loop left it
  ap_inventory,      \* api_inventory["discovered"] after the de-duplication
  ap_next,           \* the sampling pass: the index of the entry it comes to next
  ap_samples,        \* history: the entries the sampling pass has probed
  ap_written,        \* api_endpoints.json
  hc_running,        \* HealthChecker.running
  hc_task,           \* the task of start_monitoring(): where it is suspended
  hc_stop_at,        \* history: where that task was when stop_monitoring() was called
  hc_last,           \* history: how the last health check of the task ended
  cf_agents,         \* _calculate_overall_confidence: the confidences of agent_responses
  cf_resolutions,    \* the confidences of conflict_resolutions
  cf_plain,          \* what it returned for these responses and no resolution
  cf_resolved,       \* what it returned for these responses and these resolutions
  intake,            \* the intake file as the __main__ block finds it
  created,           \* history: the output files and directories created or truncated
  open_files,        \* the writers that are open
  delays,            \* history: the calls of time.sleep by the crawl loop
  owed,              \* history: a page was fetched and time.sleep has not been called since
  summary            \* summary.json

vars == <<phase, max_pages, max_depth, priority_paths, provided_sitemaps, rp,
          robots_found, robots_fetch, sitemap_urls, sm_stack, sm_fetched,
          sm_refetched, sm_skipped, sm_listed, sm_yield, sm_read, seed_urls, q,
          seen, depth_map, count, pages, fetches,
          found_on, lk_page, lk_anchors, lk_rows, sc_call, sc_result,
          fq_scripts, fq_lines, fq_result, ap_discovered, ap_inventory,
          ap_next, ap_samples, ap_written, hc_running, hc_task, hc_stop_at,
          hc_last, cf_agents, cf_resolutions, cf_plain, cf_resolved, intake,
          created, open_files,
          delays, owed, summary>>

config == <<max_pages, max_depth, priority_paths, provided_sitemaps>>
robots == <<rp, robots_found, robots_fetch, sitemap_urls>>
sm_history == <<sm_fetched, sm_refetched, sm_skipped, sm_listed, sm_yield, sm_read>>
sitemaps == <<sm_stack, sm_history>>
frontier == <<q, seen, depth_map, count>>
edges == <<lk_page, lk_anchors, lk_rows>>
scorer == <<sc_call, sc_result>>
faq == <<fq_scripts, fq_lines, fq_result>>
api == <<ap_discovered, ap_inventory, ap_next, ap_samples, ap_written>>
health == <<hc_running, hc_task, hc_stop_at, hc_last>>
confidence == <<cf_agents, cf_resolutions, cf_plain, cf_resolved>>
aside == <<edges, scorer, faq, api, health, confidence>>
run == <<intake, created, open_files>>
politeness == <<delays, owed>>

(***************************************************************************)
(* robotparser.RobotFileParser as crawl_site uses it.                      *)
(***************************************************************************)
\* RobotFileParser(): nothing read yet
NewRobotParser ==
  [disallow_all |-> FALSE, allow_all |-> FALSE, last_checked |-> FALSE, disallow |-> {}]

\* rp.parse(lines): the rules are stored and the parser is marked as read
RobotsParsed(policy) ==
  [disallow_all |-> FALSE, allow_all |-> FALSE, last_checked |-> TRUE, disallow |-> policy]

\* rp.can_fetch("*", url)
can_fetch(r, url) ==
  IF r.disallow_all THEN FALSE
  ELSE IF r.allow_all THEN TRUE
  ELSE IF ~r.last_checked THEN FALSE
  ELSE \A rule \in r.disallow : ~IsPrefix(rule, url.path)

\* rp.set_url(robots_url); rp.read(), by how urlopen ends:
\*   "ok" the file is read and parsed, "http401" 401 or 403, "http404" another
\*   4xx, "http500" any other HTTPError (handled and ignored by read()),
\*   "neterr" a URLError, which read() does not handle
RpReadOutcomes == {"ok", "http401", "http404", "http500", "neterr"}
RpRead(outcome, policy) ==
  CASE outcome = "ok"      -> RobotsParsed(policy)
    [] outcome = "http401" -> [NewRobotParser EXCEPT !.disallow_all = TRUE]
    [] outcome = "http404" -> [NewRobotParser EXCEPT !.allow_all = TRUE]
    [] OTHER               -> NewRobotParser

\* robots_ok after the else branch of read_robots: False only when rp.read() raised
RobotsOkAfterRead(outcome) == outcome # "neterr"

\* no page is in the hands of find_links
NoEdgeWork ==
  /\ lk_page = NoPage
  /\ lk_anchors = <<>>
  /\ lk_rows = <<>>

NoCall == [fn |-> "none"]
NoResult == [returned |-> FALSE]

\* no scorer is being called on its own
NoScorerCall ==
  /\ sc_call = NoCall
  /\ sc_result = NoResult

\* detect_faq is not being called on its own
NoFaqCall ==
  /\ fq_scripts = <<>>
  /\ fq_lines = <<>>
  /\ fq_result = NoResult

NoFile == [written |-> FALSE]

\* the API inventory is not being handled on its own
NoApiWork ==
  /\ ap_discovered = <<>>
  /\ ap_inventory = <<>>
  /\ ap_next = 0
  /\ ap_samples = <<>>
  /\ ap_written = NoFile

\* no health check has been made
NoCheck == [kind |-> "none"]

\* HealthChecker(monitor): no task has been made of start_monitoring()
NoMonitoring ==
  /\ hc_running = FALSE
  /\ hc_task = "none"
  /\ hc_stop_at = "never"
  /\ hc_last = NoCheck

\* _calculate_overall_confidence is not being called
NoConfidenceCall ==
  /\ cf_agents = <<>>
  /\ cf_resolutions = <<>>
  /\ cf_plain = NoResult
  /\ cf_resolved = NoResult

\* none of the parts taken on their own is at work
NothingAside ==
  /\ NoEdgeWork
  /\ NoScorerCall
  /\ NoFaqCall
  /\ NoApiWork
  /\ NoMonitoring
  /\ NoConfidenceCall

Init ==
  /\ phase = "INIT"
  /\ max_pages \in 0..MaxPagesBound
  /\ max_depth \in 0..MaxDepthBound
  /\ \E ctx \in IntakeChoices :
       /\ priority_paths = ctx.priority_paths
       /\ provided_sitemaps = ctx.sitemap_urls
  /\ rp = NewRobotParser
  /\ robots_found = FALSE
  /\ robots_fetch = "none"
  /\ sitemap_urls = {}
  /\ sm_stack = <<>>
  /\ sm_fetched = {}
  /\ sm_refetched = FALSE
  /\ sm_skipped = {}
  /\ sm_listed = {}
  /\ sm_yield = {}
  /\ sm_read = FALSE
  /\ seed_urls = {}
  /\ q = <<>>
  /\ seen = {}
  /\ depth_map = [u \in PageURLs |-> NoDepth]
  /\ count = 0
  /\ pages = <<>>
  /\ fetches = [u \in PageURLs |-> 0]
  /\ found_on = [u \in PageURLs |-> NoPage]
  /\ NoEdgeWork
  /\ NoScorerCall
  /\ NoFaqCall
  /\ NoApiWork
  /\ NoMonitoring
  /\ NoConfidenceCall
  /\ intake = NoIntake
  /\ created = {}
  /\ open_files = {}
  /\ delays = 0
  /\ owed = FALSE
  /\ summary = NoSummary

\* sitemap_urls of crawl_site: the robots lines, the intake's sitemaps, and
\* /sitemap.xml when there is none
MergedSitemaps(lines) ==
  LET s == Range(lines) \cup provided_sitemaps
  IN IF s = {} THEN {urljoin(domain, <<"sitemap.xml">>)} ELSE s

\* a frame of parse_sitemaps: sms is what is left of sitemap_urls, locs the
\* <loc> children of the sitemapindex being iterated, urls the local set
Frame(sms) == [sms |-> sms, locs |-> <<>>, urls |-> {}]

(***************************************************************************)
(* read_robots(domain) and the sitemap set; parse_sitemaps is entered.     *)
(***************************************************************************)
StartSeeding(r, found, how, lines) ==
  /\ rp' = r
  /\ robots_found' = found
  /\ robots_fetch' = how
  /\ sitemap_urls' = MergedSitemaps(lines)
  /\ \E order \in Orderings(MergedSitemaps(lines)) : sm_stack' = <<Frame(order)>>
  /\ phase' = "SEEDING"
  /\ created' = created \cup {"out_dir"}
  /\ UNCHANGED <<config, sm_history, seed_urls, frontier, pages,
                 fetches, found_on, aside, intake, open_files, politeness, summary>>

\* the fetch of /robots.txt returned 200
ReadRobotsOk ==
  /\ phase = "INIT"
  /\ \E file \in RobotsFiles :
       StartSeeding(RobotsParsed(file.disallow), TRUE, "ok", file.sitemaps)

\* the fetch of /robots.txt raised or returned a status other than 200:
\* rp.read() fetches it again
ReadRobotsFailed ==
  /\ phase = "INIT"
  /\ \E outcome \in RpReadOutcomes, file \in RetriedRobotsFiles :
       StartSeeding(RpRead(outcome, file.disallow), RobotsOkAfterRead(outcome),
                    "failed", <<>>)

(***************************************************************************)
(* parse_sitemaps(sitemap_urls), one step at a time.                       *)
(***************************************************************************)
Top == sm_stack[Len(sm_stack)]
ReplaceTop(f) == [sm_stack EXCEPT ![Len(sm_stack)] = f]

\* what fetch(sm) and ET.fromstring may give: "skip" stands for a failed fetch,
\* a status other than 200, malformed XML or another root tag (all `continue`
\* or fall through).  In a frame at the recursion limit the request itself
\* raises RecursionError, which fetch() catches: the fetch fails.
SitemapResponses ==
  IF Len(sm_stack) >= RecursionLimit
  THEN {[kind |-> "skip"]}
  ELSE {[kind |-> "skip"]}
       \cup {[kind |-> "index", locs |-> c] : c \in IndexChoices}
       \cup {[kind |-> "urlset", urls |-> c] : c \in UrlsetChoices}

\* (mutant) a sitemap that cannot be read ends the loop over sitemap_urls
AfterSkip_Break(rest) == <<>>

\* `continue`: the loop goes on with the sitemaps that are left
AfterSkip(rest) == rest

\* (mutant) the set a recursive call returns replaces the caller's
UrlsUpdate_Assign(mine, returned) == returned

\* urls.update(parse_sitemaps([loc])): the returned set is united into urls
UrlsUpdate(mine, returned) == mine \cup returned

\* one iteration of `for sm in sitemap_urls`, up to the loop over the <loc>s
SitemapFetchResult(resp) ==
  LET sm == Head(Top.sms)
      rest == Tail(Top.sms)
  IN /\ sm_fetched' = sm_fetched \cup {sm}
     /\ sm_refetched' = (sm_refetched \/ sm \in sm_fetched)
     /\ CASE resp.kind = "index" ->
               /\ sm_stack' = ReplaceTop([Top EXCEPT !.sms = rest, !.locs = resp.locs])
               /\ sm_listed' = sm_listed \cup Range(resp.locs)
               /\ sm_read' = TRUE
               /\ UNCHANGED <<sm_skipped, sm_yield>>
          [] resp.kind = "urlset" ->
               /\ sm_stack' = ReplaceTop([Top EXCEPT !.sms = rest,
                                                      !.urls = @ \cup resp.urls])
               /\ sm_yield' = sm_yield \cup resp.urls
               /\ sm_read' = TRUE
               /\ UNCHANGED <<sm_skipped, sm_listed>>
          [] OTHER ->
               /\ sm_stack' = ReplaceTop([Top EXCEPT !.sms = AfterSkip(rest)])
               /\ sm_skipped' = sm_skipped \cup {sm}
               /\ UNCHANGED <<sm_listed, sm_yield, sm_read>>

SitemapFetch ==
  /\ phase = "SEEDING"
  /\ sm_stack # <<>>
  /\ Top.locs = <<>>
  /\ Top.sms # <<>>
  /\ \E resp \in SitemapResponses : SitemapFetchResult(resp)
  /\ UNCHANGED <<phase, config, robots, seed_urls, frontier, pages, fetches, found_on,
                 aside, run,
                 politeness, summary>>

\* urls.update(parse_sitemaps([loc.text.strip()])): the call is entered
SitemapRecurse ==
  /\ phase = "SEEDING"
  /\ sm_stack # <<>>
  /\ Top.locs # <<>>
  /\ sm_stack' = Append(ReplaceTop([Top EXCEPT !.locs = Tail(Top.locs)]),
                        Frame(<<Head(Top.locs)>>))
  /\ UNCHANGED <<phase, config, robots, sm_history, seed_urls,
                 frontier, pages, fetches, found_on, aside, run,
                 politeness, summary>>

\* a recursive call returns to the loop over the <loc>s of its caller
SitemapReturn ==
  /\ phase = "SEEDING"
  /\ Len(sm_stack) > 1
  /\ Top.locs = <<>>
  /\ Top.sms = <<>>
  /\ LET caller == sm_stack[Len(sm_stack) - 1]
     IN sm_stack' = [SubSeq(sm_stack, 1, Len(sm_stack) - 1)
                       EXCEPT ![Len(sm_stack) - 1] =
                         [caller EXCEPT !.urls = UrlsUpdate(caller.urls, Top.urls)]]
  /\ UNCHANGED <<phase, config, robots, sm_history, seed_urls,
                 frontier, pages, fetches, found_on, aside, run,
                 politeness, summary>>

(***************************************************************************)
(* The outermost parse_sitemaps call returns; the seed set is completed    *)
(* and the queue is primed (crawl_site, "Build seed set" to `count = 0`).  *)
(***************************************************************************)
\* seed_urls |= parse_sitemaps(list(sitemap_urls)), then the priority URLs
\* and the homepage are added
AllSeeds ==
  (seed_urls \cup Top.urls) \cup {urljoin(domain, priority_paths[i]) : i \in 1..Len(priority_paths)}
            \cup {homepage}

\* (mutant) every seed is queued, whatever its host
AdmittedSeeds_AnyHost == AllSeeds

\* the seeds that `if same_host(u, domain)` lets into the queue
AdmittedSeeds == {u \in AllSeeds : same_host(u, domain)}

\* pages_f, forms_f, edges_f, perf_f: each is opened with mode "w"
Writers == {"pages", "forms", "edges", "performance"}

PrimeQueue ==
  /\ phase = "SEEDING"
  /\ Len(sm_stack) = 1
  /\ Top.locs = <<>>
  /\ Top.sms = <<>>
  /\ sm_stack' = <<>>
  /\ seed_urls' = AllSeeds
  /\ \E order \in Orderings(AdmittedSeeds) : q' = order
  /\ depth_map' = [u \in PageURLs |-> IF u \in AdmittedSeeds THEN 0 ELSE depth_map[u]]
  /\ sm_fetched' = {}
  /\ sm_refetched' = FALSE
  /\ sm_skipped' = {}
  /\ sm_listed' = {}
  /\ UNCHANGED <<sm_yield, sm_read>>
  /\ created' = created \cup Writers
  /\ open_files' = Writers
  /\ phase' = "CRAWLING"
  /\ UNCHANGED <<config, robots, seen, count, pages, fetches, found_on, aside, intake,
                 politeness, summary>>

(***************************************************************************)
(* The crawl loop of crawl_site.                                           *)
(***************************************************************************)
\* what fetch(url) may give the loop:
\*   "err"      requests raised: resp is None
\*   "non2xx"   a response whose resp.ok is false: a status of 400 or above
\*   "ok3xx"    a 3xx response that requests does not follow (no Location
\*              header): resp.ok is true; it carries a body with a link
\*   "empty2xx" a 2xx response, not text/html, with an empty body
\*   "body2xx"  a 2xx response, not text/html, with a body
\*   "html"     a 2xx text/html response
\* a parsed body carries its anchors, its forms ("none", "empty": a form
\* without fields, "inputs": a form with a field) and `rich`: title, meta
\* description, og tags, ld+json and viewport are all there, or none is.
\* The text/html pages of the site are rich; a body that is not text/html
\* carries anchors at most
FormKinds == {"none", "empty", "inputs"}
ParsedResponses ==
  {[kind |-> "html", anchors |-> a, form |-> f, rich |-> TRUE] :
     a \in AnchorLists, f \in FormKinds}
  \cup {[kind |-> "body2xx", anchors |-> a, form |-> "none", rich |-> FALSE] :
          a \in {<<>>, <<Href(PageA, "top")>>}}
  \cup {[kind |-> "ok3xx", anchors |-> <<Href(PageB, "")>>, form |-> "none",
          rich |-> FALSE]}
BareResponses ==
  {[kind |-> k, anchors |-> <<>>, form |-> "none", rich |-> FALSE] :
     k \in {"err", "non2xx", "empty2xx"}}
PageResponses == ParsedResponses \cup BareResponses

\* status = resp.status_code if resp else None
StatusOf(resp) ==
  CASE resp.kind = "err"    -> "none"
    [] resp.kind = "non2xx" -> "non2xx"
    [] resp.kind = "ok3xx"  -> "3xx"
    [] OTHER                -> "2xx"

\* (mutant) resp.ok is not consulted
TakesHtmlBranch_AnyStatus(resp) == resp.kind \in {"html", "body2xx", "ok3xx", "non2xx"}

\* resp and resp.ok and ("text/html" in Content-Type or html)
TakesHtmlBranch(resp) == resp.kind \in {"html", "body2xx", "ok3xx"}

\* find_links(soup, url)[0]: the normalised hrefs of the page's host, first
\* occurrences only
InternalLinks(url, anchors) ==
  Dedup(SelectSeq([i \in 1..Len(anchors) |-> norm_url(anchors[i])],
                  LAMBDA u : u.host = url.host \/ u.host = ""))

\* find_links(soup, url)[1]
ExternalLinks(url, anchors) ==
  Dedup(SelectSeq([i \in 1..Len(anchors) |-> norm_url(anchors[i])],
                  LAMBDA u : ~(u.host = url.host \/ u.host = "")))

\* find_links(soup, url)[2]: rel_edges, one (from, to) pair for each <a href>
RelEdges(url, anchors) == [i \in 1..Len(anchors) |-> <<url, norm_url(anchors[i])>>]

\* "write edges": one row for each entry of internal_links, then one for
\* each entry of external_links
EdgeRows(url, anchors) ==
  [i \in 1..Len(InternalLinks(url, anchors)) |->
     [from_url |-> url, to_url |-> InternalLinks(url, anchors)[i], rel |-> "internal"]]
  \o [i \in 1..Len(ExternalLinks(url, anchors)) |->
        [from_url |-> url, to_url |-> ExternalLinks(url, anchors)[i], rel |-> "external"]]

\* extract_forms(soup, url) raises NameError (`i` is not defined) as soon as
\* a form has an input, select or textarea
ExtractFormsRaises(resp) == resp.form = "inputs"

\* depth = depth_map.get(url, 0)
Depth(dm, url) == IF dm[url] = NoDepth THEN 0 ELSE dm[url]

\* (mutant) the visited check is left out
AlreadySeen_Never(url) == FALSE

\* `if url in seen: continue`
AlreadySeen(url) == url \in seen

\* (mutant) the depth check is left out
TooDeep_Never(url) == FALSE

\* `if depth > max_depth: continue`
TooDeep(url) == Depth(depth_map, url) > max_depth

\* (mutant) the robots check is left out
RobotsAllows_Always(url) == TRUE

\* `if not rp.can_fetch("*", url): continue`
RobotsAllows(url) == can_fetch(rp, url)

\* (mutant) a stack instead of a FIFO queue
QPut_Front(qq, u) == <<u>> \o qq

\* q.put(u)
QPut(qq, u) == Append(qq, u)

\* (mutant) links are queued whether or not they are in seen
RECURSIVE EnqueueLinks_Unseen(_, _, _, _)
EnqueueLinks_Unseen(links, qq, dm, d) ==
  IF links = <<>> THEN [q |-> qq, depth_map |-> dm]
  ELSE LET nxt == Head(links)
       IN IF same_host(nxt, domain)
          THEN EnqueueLinks_Unseen(Tail(links), QPut(qq, nxt),
                                    IF dm[nxt] = NoDepth THEN [dm EXCEPT ![nxt] = d + 1] ELSE dm,
                                    d)
          ELSE EnqueueLinks_Unseen(Tail(links), qq, dm, d)

\* (mutant) the depth of a link is set whether or not it has one
RECURSIVE EnqueueLinks_Redepth(_, _, _, _)
EnqueueLinks_Redepth(links, qq, dm, d) ==
  IF links = <<>> THEN [q |-> qq, depth_map |-> dm]
  ELSE LET nxt == Head(links)
       IN IF nxt \notin seen /\ same_host(nxt, domain)
          THEN EnqueueLinks_Redepth(Tail(links), QPut(qq, nxt), [dm EXCEPT ![nxt] = d + 1], d)
          ELSE EnqueueLinks_Redepth(Tail(links), qq, dm, d)

\* "queue internal links": for nxt in internal_links, in order
RECURSIVE EnqueueLinks(_, _, _, _)
EnqueueLinks(links, qq, dm, d) ==
  IF links = <<>> THEN [q |-> qq, depth_map |-> dm]
  ELSE LET nxt == Head(links)
       IN IF nxt \notin seen /\ same_host(nxt, domain)
          THEN EnqueueLinks(Tail(links), QPut(qq, nxt),
                            IF dm[nxt] = NoDepth THEN [dm EXCEPT ![nxt] = d + 1] ELSE dm,
                            d)
          ELSE EnqueueLinks(Tail(links), qq, dm, d)

\* the PageRecord of the HTML branch
\* (kind is history: the response the record was made from)
HtmlRecord(url, resp) ==
  [url |-> url, status |-> StatusOf(resp), kind |-> resp.kind, extracted |-> TRUE,
   rich |-> resp.rich, extraction_notes |-> <<>>]

\* the PageRecord of the "non-HTML or error" branch
BareRecord(url, resp) ==
  [url |-> url, status |-> StatusOf(resp), kind |-> resp.kind, extracted |-> FALSE,
   rich |-> FALSE, extraction_notes |-> <<"non_html_or_error">>]

\* (mutant) the counter is not advanced
NextCount_Stuck(c) == c

\* seen.add(url); count += 1
MarkSeen(s, url) == s \cup {url}
NextCount(c) == c + 1

\* the loop condition: `while not q.empty() and count < max_pages`
LoopRuns == q # <<>> /\ count < max_pages

\* the iteration goes past the three `continue`s and fetches url
Fetched(url) == ~AlreadySeen(url) /\ ~TooDeep(url) /\ RobotsAllows(url)

SkipSeen ==
  /\ phase = "CRAWLING"
  /\ LoopRuns
  /\ AlreadySeen(Head(q))
  /\ q' = Tail(q)
  /\ UNCHANGED <<phase, config, robots, sitemaps, seed_urls, seen, depth_map,
                 count, pages, fetches, found_on, aside, run,
                 politeness, summary>>

SkipDepth ==
  /\ phase = "CRAWLING"
  /\ LoopRuns
  /\ ~AlreadySeen(Head(q))
  /\ TooDeep(Head(q))
  /\ q' = Tail(q)
  /\ UNCHANGED <<phase, config, robots, sitemaps, seed_urls, seen, depth_map,
                 count, pages, fetches, found_on, aside, run,
                 politeness, summary>>

SkipRobots ==
  /\ phase = "CRAWLING"
  /\ LoopRuns
  /\ ~AlreadySeen(Head(q))
  /\ ~TooDeep(Head(q))
  /\ ~RobotsAllows(Head(q))
  /\ q' = Tail(q)
  /\ UNCHANGED <<phase, config, robots, sitemaps, seed_urls, seen, depth_map,
                 count, pages, fetches, found_on, aside, run,
                 politeness, summary>>

\* (mutant) the delay is skipped when the request raised
PolitenessDelay_OnResponse(resp) == resp.kind # "err"

\* time.sleep(0.15) follows fetch(url) whatever it returned
PolitenessDelay(resp) == TRUE

\* resp, err, ms = fetch(url, timeout=15) ... time.sleep(0.15)
FetchThenSleep(resp) ==
  /\ owed' = ~PolitenessDelay(resp)
  /\ delays' = IF PolitenessDelay(resp) THEN delays + 1 ELSE delays

\* the responses that take the HTML branch and make extract_forms raise
RaisingResponses ==
  {resp \in PageResponses : TakesHtmlBranch(resp) /\ ExtractFormsRaises(resp)}

\* the page is fetched and goes through the "non-HTML or error" branch
ProcessBare ==
  /\ phase = "CRAWLING"
  /\ LoopRuns
  /\ Fetched(Head(q))
  /\ \E resp \in PageResponses :
       /\ ~TakesHtmlBranch(resp)
       /\ pages' = Append(pages, BareRecord(Head(q), resp))
       /\ FetchThenSleep(resp)
  /\ fetches' = [fetches EXCEPT ![Head(q)] = @ + 1]
  /\ q' = Tail(q)
  /\ seen' = MarkSeen(seen, Head(q))
  /\ count' = NextCount(count)
  /\ UNCHANGED <<phase, config, robots, sitemaps, seed_urls, depth_map, found_on,
                 aside, run, summary>>

\* the page is fetched and every extractor of the HTML branch returns
ProcessHtml ==
  /\ phase = "CRAWLING"
  /\ LoopRuns
  /\ Fetched(Head(q))
  /\ \E resp \in PageResponses :
       /\ TakesHtmlBranch(resp)
       /\ ~ExtractFormsRaises(resp)
       /\ FetchThenSleep(resp)
       /\ LET url == Head(q)
              r == EnqueueLinks(InternalLinks(url, resp.anchors), Tail(q), depth_map,
                                Depth(depth_map, url))
          IN /\ q' = r.q
             /\ depth_map' = r.depth_map
             /\ found_on' = [u \in PageURLs |->
                               IF depth_map[u] = NoDepth /\ r.depth_map[u] # NoDepth
                               THEN url ELSE found_on[u]]
             /\ pages' = Append(pages, HtmlRecord(url, resp))
  /\ fetches' = [fetches EXCEPT ![Head(q)] = @ + 1]
  /\ seen' = MarkSeen(seen, Head(q))
  /\ count' = NextCount(count)
  /\ UNCHANGED <<phase, config, robots, sitemaps, seed_urls, aside, run, summary>>

\* the page is fetched and extract_forms raises: nothing in crawl_site or
\* its caller catches the NameError, and the session ends there
ProcessRaises ==
  /\ phase = "CRAWLING"
  /\ LoopRuns
  /\ Fetched(Head(q))
  /\ \E resp \in RaisingResponses : FetchThenSleep(resp)
  /\ fetches' = [fetches EXCEPT ![Head(q)] = @ + 1]
  /\ q' = Tail(q)
  /\ phase' = "ABORTED"
  /\ UNCHANGED <<config, robots, sitemaps, seed_urls, seen, depth_map, count,
                 pages, found_on, aside, run, summary>>

(***************************************************************************)
(* After the loop: the writers are closed, the readiness sections are      *)
(* computed and summary.json is written.                                   *)
(***************************************************************************)
\* score_api_testing: the caps on the endpoints, the JSON endpoints and the
\* forms that count, and the score from which the site is "ready"
EndpointCap == 20
JsonCap == 10
FormCap == 5
ApiReadyFrom == 40

\* score_api_testing, from len(endpoints), len(json_like) and forms_count
ApiScore(n_endpoints, n_json, forms_count) ==
  LET raw == (IF n_endpoints < EndpointCap THEN n_endpoints ELSE EndpointCap) * 3
             + (IF n_json < JsonCap THEN n_json ELSE JsonCap) * 3
             + (IF forms_count < FormCap THEN forms_count ELSE FormCap) * 2
      clamped == IF raw < 100 THEN raw ELSE 100
  IN IF clamped > 0 THEN clamped ELSE 0

\* round(a / b) of two non-negative integers: Python rounds halves to even
RoundHalfEven(a, b) ==
  LET fl == a \div b
      twice == 2 * (a % b)
  IN IF twice > b THEN fl + 1
     ELSE IF twice < b THEN fl
     ELSE IF fl % 2 = 0 THEN fl ELSE fl + 1

Min(a, b) == IF a < b THEN a ELSE b
Max(a, b) == IF a > b THEN a ELSE b

SitemapBonus == 10
RobotsBonus == 5

\* (mutant) the sum of the parts is not clamped
IndustryScore_Unclamped(title_ok, desc_ok, og_ok, ld_ok, n_pages, mv_ok, fast_ok, n_rows, sitemap_found, robots_ok) ==
  LET n == IF n_pages = 0 THEN 1 ELSE n_pages
      m == Max(n_rows, 1)
  IN RoundHalfEven(title_ok * 15, n) + RoundHalfEven(desc_ok * 15, n)
     + RoundHalfEven(og_ok * 10, n) + RoundHalfEven(ld_ok * 25, n)
     + RoundHalfEven(mv_ok * 15, m)
     + (IF sitemap_found THEN SitemapBonus ELSE 0)
     + (IF robots_ok THEN RobotsBonus ELSE 0)
     + RoundHalfEven(fast_ok * 10, m)

IndustryReadyFrom == 60

\* the score of score_industry_comparison from its counts: pages with a
\* title, a meta description, og tags, ld+json; rows with a viewport, rows
\* fetched within 2000 ms; the number of pages and of performance rows
IndustryScore(title_ok, desc_ok, og_ok, ld_ok, n_pages, mv_ok, fast_ok, n_rows, sitemap_found, robots_ok) ==
  LET n == IF n_pages = 0 THEN 1 ELSE n_pages
      m == Max(n_rows, 1)
      raw == RoundHalfEven(title_ok * 15, n) + RoundHalfEven(desc_ok * 15, n)
             + RoundHalfEven(og_ok * 10, n) + RoundHalfEven(ld_ok * 25, n)
             + RoundHalfEven(mv_ok * 15, m)
             + (IF sitemap_found THEN SitemapBonus ELSE 0)
             + (IF robots_ok THEN RobotsBonus ELSE 0)
             + RoundHalfEven(fast_ok * 10, m)
  IN Max(0, Min(raw, 100))

\* industry_section["score"] of this session: pages_for_scoring and
\* perf_rows_for_scoring hold one entry per line of pages.jsonl; every
\* response that arrives does so within 2000 ms
SessionIndustryScore(sitemap_found, robots_ok) ==
  LET rich == Cardinality({i \in 1..Len(pages) : pages[i].rich})
      timed == Cardinality({i \in 1..Len(pages) : pages[i].status # "none"})
  IN IndustryScore(rich, rich, rich, rich, Len(pages), rich, timed, Len(pages),
                   sitemap_found, robots_ok)

\* pages_f.close(); forms_f.close(); edges_f.close(); perf_f.close()
WritersClosed(open) == open \ Writers

\* the loop is left and pages_f, forms_f, edges_f, perf_f are closed
LeaveLoop ==
  /\ phase = "CRAWLING"
  /\ ~LoopRuns
  /\ open_files' = WritersClosed(open_files)
  /\ phase' = "SCORING"
  /\ UNCHANGED <<config, robots, sitemaps, seed_urls, frontier, pages, fetches,
                 found_on, aside, intake, created, politeness, summary>>

\* the readiness sections and summary.json
WriteSummary ==
  /\ phase = "SCORING"
  /\ summary' = [written |-> TRUE,
                 pages_crawled |-> count,
                 robots_txt_exists |-> robots_found,
                 sitemaps_discovered_count |-> Cardinality(sitemap_urls),
                 sitemap_present |-> (sitemap_urls # {}),
                 robots_present |-> robots_found,
                 industry_score |-> SessionIndustryScore(sitemap_urls # {}, robots_found)]
  /\ created' = created \cup {"api_endpoints", "summary"}
  /\ phase' = "DONE"
  /\ UNCHANGED <<config, robots, sitemaps, seed_urls, frontier, pages, fetches,
                 found_on, aside, intake, open_files, politeness>>

Next ==
  \/ ReadRobotsOk
  \/ ReadRobotsFailed
  \/ SitemapFetch
  \/ SitemapRecurse
  \/ SitemapReturn
  \/ PrimeQueue
  \/ SkipSeen
  \/ SkipDepth
  \/ SkipRobots
  \/ ProcessBare
  \/ ProcessHtml
  \/ ProcessRaises
  \/ LeaveLoop
  \/ WriteSummary

Spec == Init /\ [][Next]_vars

(***************************************************************************)
(* find_links and the "write edges" loops of the HTML branch, on one page  *)
(* at a time: the page and its anchors are any the site may serve.         *)
(***************************************************************************)
\* the hrefs of such a page: the same target with and without a fragment,
\* another page, another host, and a mailto: link (no host at all)
LinkHrefs ==
  Hrefs \cup {Href(PageA, ""), Href(U("", <<"mailto:x">>), "")}
LinkAnchorLists == UNION { [1..n -> LinkHrefs] : n \in 0..MaxAnchors }

\* crawl_site has not been entered
CrawlNotEntered ==
  /\ max_pages = 0
  /\ max_depth = 0
  /\ priority_paths = <<>>
  /\ provided_sitemaps = {}
  /\ rp = NewRobotParser
  /\ robots_found = FALSE
  /\ robots_fetch = "none"
  /\ sitemap_urls = {}
  /\ sm_stack = <<>>
  /\ sm_fetched = {}
  /\ sm_refetched = FALSE
  /\ sm_skipped = {}
  /\ sm_listed = {}
  /\ sm_yield = {}
  /\ sm_read = FALSE
  /\ seed_urls = {}
  /\ q = <<>>
  /\ seen = {}
  /\ depth_map = [u \in PageURLs |-> NoDepth]
  /\ count = 0
  /\ pages = <<>>
  /\ fetches = [u \in PageURLs |-> 0]
  /\ found_on = [u \in PageURLs |-> NoPage]
  /\ created = {}
  /\ open_files = {}
  /\ delays = 0
  /\ owed = FALSE
  /\ summary = NoSummary

\* nor has the __main__ block been run
SessionNotStarted ==
  /\ CrawlNotEntered
  /\ intake = NoIntake

InitLinks ==
  /\ phase = "LINKS"
  /\ SessionNotStarted
  /\ lk_page \in {u \in PageURLs : same_host(u, domain)}
  /\ lk_anchors \in LinkAnchorLists
  /\ lk_rows = <<>>
  /\ NoScorerCall
  /\ NoFaqCall
  /\ NoApiWork
  /\ NoMonitoring
  /\ NoConfidenceCall

\* internal_links, external_links, rel_edges = find_links(soup, url), and
\* the two loops over edges_writer.writerow
WriteEdges ==
  /\ phase = "LINKS"
  /\ lk_rows' = EdgeRows(lk_page, lk_anchors)
  /\ phase' = "EDGES_WRITTEN"
  /\ UNCHANGED <<config, robots, sitemaps, seed_urls, frontier, pages, fetches,
                 found_on, lk_page, lk_anchors, scorer, faq, api, health, confidence, run,
                 politeness, summary>>

NextLinks == WriteEdges

LinkSpec == InitLinks /\ [][NextLinks]_vars

(***************************************************************************)
(* The two readiness scorers, called on any aggregated signals.            *)
(***************************************************************************)
\* the arguments of score_api_testing, by what it reads of them: the number
\* of distinct endpoints, of JSON-typed entries and of forms
ApiCalls ==
  {[fn |-> "api", n_endpoints |-> e, n_json |-> j, forms_count |-> f] :
     e \in 0..(EndpointCap + MaxScored), j \in {0, JsonCap, JsonCap + MaxScored},
     f \in {0, FormCap, FormCap + MaxScored}}

\* the arguments of score_industry_comparison, by what it reads of them:
\* pages_sample as its length and the pages with a title, a description, og
\* tags, ld+json; perf_rows as its length and the rows with a viewport and
\* with a fetch within 2000 ms; the two flags
IndustryCalls ==
  {[fn |-> "industry", n_pages |-> n, title_ok |-> t, desc_ok |-> d, og_ok |-> o,
    ld_ok |-> l, n_rows |-> m, mv_ok |-> v, fast_ok |-> f, sitemap_found |-> s,
    robots_found |-> r] :
     n \in 0..MaxScored, t \in 0..MaxScored, d \in 0..MaxScored, o \in 0..MaxScored,
     l \in 0..MaxScored, m \in 0..MaxScored, v \in 0..MaxScored, f \in 0..MaxScored,
     s \in BOOLEAN, r \in BOOLEAN}

InitScore ==
  /\ phase = "SCORER"
  /\ SessionNotStarted
  /\ NoEdgeWork
  /\ NoFaqCall
  /\ NoApiWork
  /\ NoMonitoring
  /\ NoConfidenceCall
  /\ sc_call \in ApiCalls \cup {c \in IndustryCalls :
                                  /\ c.title_ok <= c.n_pages /\ c.desc_ok <= c.n_pages
                                  /\ c.og_ok <= c.n_pages /\ c.ld_ok <= c.n_pages
                                  /\ c.mv_ok <= c.n_rows /\ c.fast_ok <= c.n_rows}
  /\ sc_result = NoResult

\* score_api_testing(api_inventory, forms_count)
CallScoreApi ==
  /\ phase = "SCORER"
  /\ sc_call.fn = "api"
  /\ sc_result = NoResult
  /\ LET score == ApiScore(sc_call.n_endpoints, sc_call.n_json, sc_call.forms_count)
     IN sc_result' = [returned |-> TRUE, score |-> score, ready |-> score >= ApiReadyFrom]
  /\ UNCHANGED <<phase, config, robots, sitemaps, seed_urls, frontier, pages, fetches,
                 found_on, edges, sc_call, faq, api, health, confidence, run, politeness,
                 summary>>

\* score_industry_comparison(pages_sample, perf_rows, sitemap_found, robots_found)
CallScoreIndustry ==
  /\ phase = "SCORER"
  /\ sc_call.fn = "industry"
  /\ sc_result = NoResult
  /\ LET c == sc_call
         score == IndustryScore(c.title_ok, c.desc_ok, c.og_ok, c.ld_ok, c.n_pages,
                                c.mv_ok, c.fast_ok, c.n_rows, c.sitemap_found,
                                c.robots_found)
     IN sc_result' = [returned |-> TRUE, score |-> score,
                      ready |-> score >= IndustryReadyFrom]
  /\ UNCHANGED <<phase, config, robots, sitemaps, seed_urls, frontier, pages, fetches,
                 found_on, edges, sc_call, faq, api, health, confidence, run, politeness,
                 summary>>

NextScore ==
  \/ CallScoreApi
  \/ CallScoreIndustry

ScoreSpec == InitScore /\ [][NextScore]_vars

(***************************************************************************)
(* detect_faq(soup, text), called on any page the site may serve.          *)
(***************************************************************************)
\* a string of a JSON document: what is left of it once stripped, and
\* whether white space surrounds it
Txt(core, pad) == [core |-> core, pad |-> pad]
\* the key is missing (or null)
NoText == [core |-> "", pad |-> FALSE, missing |-> TRUE]

\* (x or "").strip()
Strip(x) == IF x = NoText THEN Txt("", FALSE) ELSE Txt(x.core, FALSE)

\* the values of acceptedAnswer: an Answer object with or without text, a
\* bare string, or nothing
Answers ==
  { [dict |-> TRUE, text |-> Txt("a1", TRUE)], [dict |-> TRUE, text |-> NoText],
    [dict |-> FALSE] }
\* the Question objects of a mainEntity
Questions ==
  {[name |-> n, acceptedAnswer |-> a] : n \in {Txt("q1", FALSE), NoText}, a \in Answers}
\* the values of mainEntity: missing, a list of Questions, or one Question
\* that is not wrapped in a list
MainEntities ==
  {[form |-> "absent"]}
  \cup {[form |-> "list", entities |-> <<e>>] : e \in Questions}
  \cup {[form |-> "list", entities |-> <<[name |-> Txt("q1", FALSE), acceptedAnswer |-> a],
                                         [name |-> Txt("q2", TRUE), acceptedAnswer |-> a]>>] :
          a \in Answers}
  \cup {[form |-> "single", entity |-> [name |-> Txt("q1", FALSE),
                                        acceptedAnswer |-> [dict |-> TRUE, text |-> Txt("a1", TRUE)]]]}

\* the items of a parsed block: objects of some @type, or a scalar
FaqItems == {[dict |-> TRUE, type |-> "FAQPage", mainEntity |-> me] : me \in MainEntities}
OtherItems == {[dict |-> TRUE, type |-> "Organization"], [dict |-> FALSE]}

\* the ld+json script blocks of a page: text json.loads rejects, one object,
\* or a list of two items
ScriptBlocks ==
  {[parsed |-> FALSE, items |-> <<>>]}
  \cup {[parsed |-> TRUE, items |-> <<it>>] : it \in FaqItems \cup OtherItems}
  \cup {[parsed |-> TRUE, items |-> <<[dict |-> TRUE, type |-> "Organization"], it>>] :
          it \in FaqItems}

\* the lines of the visible text: "Q: ...", "A: ..." and any other line
TextLines ==
  { [kind |-> "q", txt |-> "what"], [kind |-> "q", txt |-> ""],
    [kind |-> "a", txt |-> "this"], [kind |-> "t", txt |-> "hello"] }

\* `for q in it.get("mainEntity", []) or []` followed by q.get(...): iterating
\* an object gives its keys, which are strings and have no .get
MainEntityRaises(me) == me.form = "single"

\* the pair appended for one Question of a mainEntity list
QaOf(e) ==
  [q |-> Strip(e.name),
   a |-> IF e.acceptedAnswer.dict THEN Strip(e.acceptedAnswer.text) ELSE Txt("", FALSE)]

\* qas of a FAQPage item whose mainEntity can be iterated
QasOf(me) ==
  IF me.form = "absent" THEN <<>>
  ELSE [i \in 1..Len(me.entities) |-> QaOf(me.entities[i])]

IsFaqItem(it) == it.dict /\ it.type = "FAQPage"

\* the body of `try:` for one script block: "raise" when json.loads or the
\* loop over mainEntity raises, the returned qas of the first FAQPage item,
\* or "next" when the block has none
ScriptScan(s) ==
  IF ~s.parsed THEN [how |-> "raise"]
  ELSE LET hits == {i \in 1..Len(s.items) : IsFaqItem(s.items[i])}
       IN IF hits = {} THEN [how |-> "next"]
          ELSE LET first == s.items[CHOOSE i \in hits : \A j \in hits : i <= j]
               IN IF MainEntityRaises(first.mainEntity) THEN [how |-> "raise"]
                  ELSE [how |-> "return", qas |-> QasOf(first.mainEntity)]

\* the lines after line i in which an answer is looked for
FaqWindow == 5
AnswerAfter(lines, i) ==
  {j \in (i + 1)..Min(i + FaqWindow, Len(lines)) : lines[j].kind = "a"}

\* "Fallback: crude Q/A regex proximity in visible text"
RECURSIVE FaqSnips(_, _)
FaqSnips(lines, i) ==
  IF i > Len(lines) THEN <<>>
  ELSE LET js == AnswerAfter(lines, i)
           j == CHOOSE x \in js : \A y \in js : x <= y
       IN IF lines[i].kind = "q" /\ js # {} /\ lines[i].txt # "" /\ lines[j].txt # ""
          THEN <<[q |-> Txt(lines[i].txt, FALSE), a |-> Txt(lines[j].txt, FALSE)]>>
               \o FaqSnips(lines, i + 1)
          ELSE FaqSnips(lines, i + 1)

\* detect_faq: the script blocks in document order, then the fallback
\* (heuristic is history: the fallback was reached)
RECURSIVE detect_faq(_, _)
detect_faq(scripts, lines) ==
  IF scripts = <<>>
  THEN [returned |-> TRUE, detected |-> FaqSnips(lines, 1) # <<>>, qas |-> FaqSnips(lines, 1),
        heuristic |-> TRUE]
  ELSE LET r == ScriptScan(Head(scripts))
       IN IF r.how = "return"
          THEN [returned |-> TRUE, detected |-> TRUE, qas |-> r.qas, heuristic |-> FALSE]
          ELSE detect_faq(Tail(scripts), lines)

InitFaq ==
  /\ phase = "FAQ"
  /\ SessionNotStarted
  /\ NoEdgeWork
  /\ NoScorerCall
  /\ NoApiWork
  /\ NoMonitoring
  /\ NoConfidenceCall
  /\ fq_scripts \in UNION {[1..n -> ScriptBlocks] : n \in 0..MaxScripts}
  /\ fq_lines \in UNION {[1..n -> TextLines] : n \in 0..MaxLines}
  /\ fq_result = NoResult

\* faq_detected, faq_snippets = detect_faq(soup, soup.get_text(" ", strip=True))
CallDetectFaq ==
  /\ phase = "FAQ"
  /\ fq_result' = detect_faq(fq_scripts, fq_lines)
  /\ phase' = "FAQ_DONE"
  /\ UNCHANGED <<config, robots, sitemaps, seed_urls, frontier, pages, fetches,
                 found_on, edges, scorer, fq_scripts, fq_lines, api, health,
                 confidence, run,
                 politeness, summary>>

NextFaq == CallDetectFaq

FaqSpec == InitFaq /\ [][NextFaq]_vars

(***************************************************************************)
(* The __main__ block: the intake file is loaded and crawl_site is called; *)
(* the run is followed up to the start of the crawl loop.                  *)
(***************************************************************************)
\* what load_intake_json may find in a JSON document: an object with or
\* without website_details.primary_domain and "domain", a budget level, the
\* sitemaps and priority paths; or a value that is not an object
IntakeObjects ==
  {[object |-> TRUE, primary_domain |-> d1, domain_key |-> d2, budget_level |-> b,
    sitemap_urls |-> c.sitemap_urls, priority_paths |-> c.priority_paths] :
     d1 \in {"", "h"}, d2 \in {"", "h"}, b \in {"low", "high"}, c \in IntakeChoices}
IntakeValues == IntakeObjects \cup {[object |-> FALSE]}

\* the intake file: missing, not readable as UTF-8 text, or a text that is
\* pure JSON, holds a ```json fenced block, ends with a {...} object, or
\* holds none of these; `valid` says whether the block or object parses
IntakeFiles ==
  {[on_disk |-> "missing"], [on_disk |-> "unreadable"],
   [on_disk |-> "text", layout |-> "none", valid |-> FALSE]}
  \cup {[on_disk |-> "text", layout |-> l, valid |-> TRUE, value |-> v] :
          l \in {"pure", "fenced", "trailing"}, v \in IntakeValues}
  \cup {[on_disk |-> "text", layout |-> l, valid |-> FALSE] : l \in {"fenced", "trailing"}}

\* INTAKE_PATH.exists(), then load_intake_json(INTAKE_PATH)
load_intake_json(file) ==
  IF file.on_disk # "text" THEN [raised |-> TRUE]
  ELSE IF file.layout = "none" \/ ~file.valid THEN [raised |-> TRUE]
  ELSE [raised |-> FALSE, ctx |-> file.value]

\* (mutant) a default domain stands in for a missing one
extract_domain_OrDefault(ctx) == "h"

\* extract_domain_from_ctx: website_details.primary_domain, or "domain"
extract_domain_from_ctx(ctx) ==
  IF ctx.primary_domain # "" THEN ctx.primary_domain ELSE ctx.domain_key

\* the block reaches the call of crawl_site: the file loads, ctx.get works
\* and `if not domain` is false
MainReachesCrawl ==
  /\ ~load_intake_json(intake).raised
  /\ load_intake_json(intake).ctx.object
  /\ extract_domain_from_ctx(load_intake_json(intake).ctx) # ""

InitMain ==
  /\ phase = "MAIN"
  /\ CrawlNotEntered
  /\ intake \in IntakeFiles
  /\ NoEdgeWork
  /\ NoScorerCall
  /\ NoFaqCall
  /\ NoApiWork
  /\ NoMonitoring
  /\ NoConfidenceCall

\* FileNotFoundError, the error of read_text or json.loads, ValueError,
\* AttributeError (ctx is not a dict) or RuntimeError (no domain): the
\* process ends
MainAbort ==
  /\ phase = "MAIN"
  /\ ~MainReachesCrawl
  /\ phase' = "FATAL"
  /\ UNCHANGED <<config, robots, sitemaps, seed_urls, frontier, pages, fetches,
                 found_on, aside, run, politeness, summary>>

\* crawl_site(ctx, domain, cms, priority, max_pages_default, max_depth_default)
\* is called: the page ceiling is the lower one on a low budget (120 for
\* 200), the depth limit is the default one
MainCrawl ==
  /\ phase = "MAIN"
  /\ MainReachesCrawl
  /\ LET ctx == load_intake_json(intake).ctx
     IN /\ max_pages' = IF ctx.budget_level = "low" THEN MaxPagesBound - 1 ELSE MaxPagesBound
        /\ max_depth' = MaxDepthBound
        /\ priority_paths' = ctx.priority_paths
        /\ provided_sitemaps' = ctx.sitemap_urls
  /\ phase' = "INIT"
  /\ UNCHANGED <<robots, sitemaps, seed_urls, frontier, pages, fetches,
                 found_on, aside, run, politeness, summary>>

NextMain ==
  \/ MainAbort
  \/ MainCrawl
  \/ ReadRobotsOk
  \/ ReadRobotsFailed
  \/ SitemapFetch
  \/ SitemapRecurse
  \/ SitemapReturn
  \/ PrimeQueue

MainSpec == InitMain /\ [][NextMain]_vars

(***************************************************************************)
(* After the loop: the API endpoint hints are de-duplicated, sampled and   *)
(* written, for any list of hints the pages may have given.                *)
(***************************************************************************)
EndpointA == U("h", <<"api", "a">>)
EndpointB == U("x", <<"app.js">>)

\* the hints script_hints_and_endpoints gives for the pages of a session
ApiHints ==
  {[source_url |-> s, type |-> t, endpoint |-> e, method |-> "GET"] :
     s \in {Home, PageA}, t \in {"script_hint", "xhr"}, e \in {EndpointA, EndpointB}}

\* api_inventory["discovered"] when the loop is left
\* (at is history: the place of the hint in that list)
DiscoveredLists ==
  UNION {{[i \in 1..n |-> [hint |-> l[i], at |-> i]] : l \in [1..n -> ApiHints]} :
           n \in 0..MaxHints}

\* key = (item.get("source_url"), item.get("type"), item.get("endpoint"))
HintKey(item) == <<item.hint.source_url, item.hint.type, item.hint.endpoint>>

\* (mutant) every hint is kept
DedupHints_None(items) == items

\* `if key not in dedup: dedup[key] = item`, then list(dedup.values())
RECURSIVE DedupHints(_)
DedupHints(items) ==
  IF items = <<>> THEN <<>>
  ELSE LET r == DedupHints(SubSeq(items, 1, Len(items) - 1))
           x == items[Len(items)]
       IN IF \E i \in 1..Len(r) : HintKey(r[i]) = HintKey(x) THEN r ELSE Append(r, x)

\* api_inventory["discovered"][:30]
SampleCap == 30
LastSampled == Min(Len(ap_inventory), SampleCap)

\* how the probe of one endpoint may end: a request raises, the answer is
\* not JSON, or it is JSON and a third request reads its keys
ProbeOutcomes == {"raised", "not_json", "json"}

\* the entry after its probe
Probed(entry, outcome) ==
  CASE outcome = "raised"   -> entry
    [] outcome = "not_json" -> [hint |-> entry.hint, at |-> entry.at, status_sample |-> "set",
                                content_type |-> "text/html"]
    [] OTHER                -> [hint |-> entry.hint, at |-> entry.at, status_sample |-> "set",
                                content_type |-> "application/json", sample_keys |-> "set"]

InitApi ==
  /\ phase = "API"
  /\ SessionNotStarted
  /\ NoEdgeWork
  /\ NoScorerCall
  /\ NoFaqCall
  /\ NoMonitoring
  /\ NoConfidenceCall
  /\ ap_discovered \in DiscoveredLists
  /\ ap_inventory = <<>>
  /\ ap_next = 0
  /\ ap_samples = <<>>
  /\ ap_written = NoFile

\* "de-duplicate api endpoints"
ApiDedup ==
  /\ phase = "API"
  /\ ap_inventory' = DedupHints(ap_discovered)
  /\ ap_next' = 1
  /\ phase' = "API_SAMPLING"
  /\ UNCHANGED <<config, robots, sitemaps, seed_urls, frontier, pages, fetches,
                 found_on, edges, scorer, faq, health, confidence,
                 ap_discovered, ap_samples, ap_written,
                 run, politeness, summary>>

\* one iteration of `for entry in api_inventory["discovered"][:30]`
ApiSample ==
  /\ phase = "API_SAMPLING"
  /\ ap_next <= LastSampled
  /\ \E outcome \in ProbeOutcomes :
       ap_inventory' = [ap_inventory EXCEPT ![ap_next] = Probed(@, outcome)]
  /\ ap_samples' = Append(ap_samples, ap_inventory[ap_next])
  /\ ap_next' = ap_next + 1
  /\ UNCHANGED <<phase, config, robots, sitemaps, seed_urls, frontier, pages, fetches,
                 found_on, edges, scorer, faq, health, confidence,
                 ap_discovered, ap_written,
                 run, politeness, summary>>

\* (out_dir / "api_endpoints.json").write_text(json.dumps(api_inventory, ...))
ApiWrite ==
  /\ phase = "API_SAMPLING"
  /\ ap_next > LastSampled
  /\ ap_written' = [written |-> TRUE, discovered |-> ap_inventory]
  /\ phase' = "API_WRITTEN"
  /\ UNCHANGED <<config, robots, sitemaps, seed_urls, frontier, pages, fetches,
                 found_on, edges, scorer, faq, health, confidence,
                 ap_discovered, ap_inventory, ap_next,
                 ap_samples, run, politeness, summary>>

NextApi ==
  \/ ApiDedup
  \/ ApiSample
  \/ ApiWrite

ApiSpec == InitApi /\ [][NextApi]_vars

(***************************************************************************)
(* HealthChecker: start_monitoring() is a coroutine run as an asyncio      *)
(* task, stop_monitoring() is a plain method of the caller.  The event     *)
(* loop runs one of them at a time and switches only at an await, so a     *)
(* step of the task is what it does from one await to the next.            *)
(***************************************************************************)

\* what get_system_health() can report, one reading under and one over each threshold
Readings ==
  [memory_usage : {50, 95}, cpu_usage : {50, 95}, error_rate_pct : {0, 20},
   average_response_time : {1, 40}, active_agents : {0, 2}]

\* _check_alerts(health): the alerts it logs
check_alerts(system_health) ==
  {a \in {"memory", "cpu", "error_rate", "response_time", "no_agents"} :
     \/ a = "memory" /\ system_health.memory_usage > 90
     \/ a = "cpu" /\ system_health.cpu_usage > 90
     \/ a = "error_rate" /\ system_health.error_rate_pct > 10
     \/ a = "response_time" /\ system_health.average_response_time > 30
     \/ a = "no_agents" /\ system_health.active_agents = 0}

\* one pass of the body of the loop, up to its await: the check is logged with
\* its alerts, or it raises and the except branch logs the error
HealthChecks ==
  {[kind |-> "raised"]} \cup
  {[kind |-> "checked", alerts |-> check_alerts(h)] : h \in Readings}

\* task = asyncio.create_task(health_checker.start_monitoring()): the
\* coroutine has not run yet
InitMonitor ==
  /\ phase = "MONITOR"
  /\ SessionNotStarted
  /\ NoEdgeWork
  /\ NoScorerCall
  /\ NoFaqCall
  /\ NoApiWork
  /\ NoConfidenceCall
  /\ hc_running = FALSE
  /\ hc_task = "scheduled"
  /\ hc_stop_at = "never"
  /\ hc_last = NoCheck

\* the first step of the task: self.running = True, the loop is entered and
\* its body runs up to asyncio.sleep
TaskFirstRun ==
  /\ phase = "MONITOR"
  /\ hc_task = "scheduled"
  /\ hc_running' = TRUE
  /\ hc_last' \in HealthChecks
  /\ hc_task' = "sleeping"
  /\ UNCHANGED <<config, robots, sitemaps, seed_urls, frontier, pages, fetches,
                 found_on, edges, scorer, faq, api, confidence, hc_stop_at,
                 run, politeness, summary, phase>>

\* the sleep is over: "while self.running" is tested again; the body runs
\* once more, or the coroutine returns and the task is done
TaskWake ==
  /\ phase = "MONITOR"
  /\ hc_task = "sleeping"
  /\ IF hc_running
       THEN /\ hc_last' \in HealthChecks
            /\ hc_task' = "sleeping"
       ELSE /\ hc_last' = hc_last
            /\ hc_task' = "done"
  /\ UNCHANGED <<config, robots, sitemaps, seed_urls, frontier, pages, fetches,
                 found_on, edges, scorer, faq, api, confidence, hc_running,
                 hc_stop_at, run, politeness, summary, phase>>

\* the caller's stop_monitoring(), between two steps of the task
StopMonitoring ==
  /\ phase = "MONITOR"
  /\ hc_stop_at = "never"
  /\ hc_running' = FALSE
  /\ hc_stop_at' = hc_task
  /\ UNCHANGED <<config, robots, sitemaps, seed_urls, frontier, pages, fetches,
                 found_on, edges, scorer, faq, api, confidence, hc_task, hc_last,
                 run, politeness, summary, phase>>

NextMonitor ==
  \/ TaskFirstRun
  \/ TaskWake
  \/ StopMonitoring

MonitorSpec == InitMonitor /\ [][NextMonitor]_vars

\* the event loop runs a task that is ready, and a sleep of check_interval ends
MonitorFairSpec == MonitorSpec /\ WF_vars(TaskFirstRun) /\ WF_vars(TaskWake)

(***************************************************************************)
(* CoordinatorAgent._calculate_overall_confidence.  A confidence is a      *)
(* float of [0, 1]; here it is a number of hundredths, and a value the     *)
(* code computes is the exact fraction num/den of hundredths (den > 0).    *)
(***************************************************************************)

\* the confidences an agent response or a conflict resolution can carry
Confidences == {0, 30, 50, 70, 100}

\* the lists of at most n confidences, and of at least one
ConfidenceLists(n) == UNION {[1..k -> Confidences] : k \in 0..n}
ResolutionLists(n) == UNION {[1..k -> Confidences] : k \in 1..n}

Frac(n, d) == [num |-> n, den |-> d]
FracAdd(a, b) == Frac(a.num * b.den + b.num * a.den, a.den * b.den)
FracSub(a, b) == Frac(a.num * b.den - b.num * a.den, a.den * b.den)
FracLess(a, b) == a.num * b.den < b.num * a.den
FracMin(a, b) == IF FracLess(b, a) THEN b ELSE a
FracMax(a, b) == IF FracLess(a, b) THEN b ELSE a

\* sum(...) of a list of confidences
RECURSIVE SumOf(_)
SumOf(cs) == IF cs = <<>> THEN 0 ELSE Head(cs) + SumOf(Tail(cs))

\* _calculate_overall_confidence(agent_responses, conflict_resolutions):
\* the mean of the agents' confidences, less 0.05 per resolution, plus a
\* tenth of the mean of the resolutions' confidences, clamped to [0, 1]
overall_confidence(agents, resolutions) ==
  IF agents = <<>>
    THEN Frac(0, 1)
    ELSE LET base_confidence == Frac(SumOf(agents), Len(agents))
             conflict_penalty == Frac(Len(resolutions) * 5, 1)
             resolution_bonus ==
               IF resolutions # <<>>
                 THEN Frac(SumOf(resolutions), Len(resolutions) * 10)
                 ELSE Frac(0, 1)
             final_confidence ==
               FracAdd(FracSub(base_confidence, conflict_penalty), resolution_bonus)
         IN FracMax(Frac(0, 1), FracMin(Frac(100, 1), final_confidence))

\* the agent responses and the conflict resolutions of one coordination
InitConf ==
  /\ phase = "CONFIDENCE"
  /\ SessionNotStarted
  /\ NoEdgeWork
  /\ NoScorerCall
  /\ NoFaqCall
  /\ NoApiWork
  /\ NoMonitoring
  /\ cf_agents \in ConfidenceLists(MaxResponses)
  /\ cf_resolutions \in ResolutionLists(MaxResolutions)
  /\ cf_plain = NoResult
  /\ cf_resolved = NoResult

\* _calculate_overall_confidence(agent_responses, [])
CallWithoutResolutions ==
  /\ phase = "CONFIDENCE"
  /\ cf_plain = NoResult
  /\ cf_plain' = [returned |-> TRUE, value |-> overall_confidence(cf_agents, <<>>)]
  /\ UNCHANGED <<config, robots, sitemaps, seed_urls, frontier, pages, fetches,
                 found_on, edges, scorer, faq, api, health, cf_agents,
                 cf_resolutions, cf_resolved, run, politeness, summary, phase>>

\* _calculate_overall_confidence(agent_responses, conflict_resolutions)
CallWithResolutions ==
  /\ phase = "CONFIDENCE"
  /\ cf_resolved = NoResult
  /\ cf_resolved' =
       [returned |-> TRUE, value |-> overall_confidence(cf_agents, cf_resolutions)]
  /\ UNCHANGED <<config, robots, sitemaps, seed_urls, frontier, pages, fetches,
                 found_on, edges, scorer, faq, api, health, cf_agents,
                 cf_resolutions, cf_plain, run, politeness, summary, phase>>

NextConf ==
  \/ CallWithoutResolutions
  \/ CallWithResolutions

ConfSpec == InitConf /\ [][NextConf]_vars

\* the session is one synchronous thread: it takes its next step whenever it has one
FairSpec == Spec /\ WF_vars(Next)

(***************************************************************************)
(* The claims.                                                             *)
(***************************************************************************)
WrittenURLs == {pages[i].url : i \in 1..Len(pages)}

\* C1: every PageRecord written has a URL on the target host whose
\* depth_map entry exists and is at most max_depth.
C1_HostAndDepth ==
  \A i \in 1..Len(pages) :
    /\ same_host(pages[i].url, domain)
    /\ depth_map[pages[i].url] # NoDepth
    /\ depth_map[pages[i].url] <= max_depth

\* a session that finished below its page budget with two pages written,
\* whose sitemap listed an off-host URL and which found a link deeper than
\* max_depth
C1_Witness ==
  /\ phase = "DONE"
  /\ count < max_pages
  /\ Len(pages) >= 2
  /\ Ext \in seed_urls
  /\ \E u \in PageURLs : depth_map[u] > max_depth

\* the three counts of a session agree, and the summary reports them
CountsAgree ==
  /\ Cardinality(seen) = count
  /\ count = Len(pages)
  /\ summary.written => summary.pages_crawled = Len(pages)

\* C2: in every state between two iterations of the loop and at the end of
\* the session, |seen| = count = the number of lines of pages.jsonl, and
\* summary.pages_crawled is that number; seen never loses an element.
C2_VisitedCountWritten == []CountsAgree /\ [][seen \subseteq seen']_vars

\* a summary reporting two pages, one of them a failed fetch
C2_Witness ==
  /\ summary.written
  /\ summary.pages_crawled >= 2
  /\ \E i \in 1..Len(pages) : pages[i].kind = "err"

\* C3: no URL is fetched twice by the loop and no URL has two PageRecords,
\* however often it sits in the queue and whether or not its fetch failed.
C3_FetchedOnce ==
  /\ \A u \in PageURLs : fetches[u] <= 1
  /\ \A i, j \in 1..Len(pages) : pages[i].url = pages[j].url => i = j

\* a URL whose fetch failed is visited and is still waiting in the queue
C3_Witness ==
  \E i \in 1..Len(pages) :
    /\ pages[i].kind = "err"
    /\ pages[i].url \in Range(q)
    /\ phase = "CRAWLING"

\* C4: parse_sitemaps fetches no sitemap URL twice in one resolution pass.
C4_NoSitemapRefetch == ~sm_refetched

\* C5: when the fetch of robots.txt failed the robots check permits every
\* URL, and a session that ends below its page budget has written a
\* PageRecord for every same-host seed.
C5_AllowAllOnRobotsFailure ==
  robots_fetch = "failed" =>
    /\ \A u \in PageURLs : can_fetch(rp, u)
    /\ (phase = "DONE" /\ count < max_pages) =>
         {u \in seed_urls : same_host(u, domain)} \subseteq WrittenURLs

\* C6: when the fetch of robots.txt failed, robots_found is false, the
\* summary says robots_txt_exists = false and the industry score is the one
\* computed without the robots bonus.
C6_RobotsFailureRecorded ==
  robots_fetch = "failed" =>
    /\ ~robots_found
    /\ summary.written =>
         /\ ~summary.robots_txt_exists
         /\ summary.industry_score = SessionIndustryScore(sitemap_urls # {}, FALSE)

\* C7: a URL that rp.can_fetch("*", url) refuses is never fetched by the loop
\* and has no PageRecord.
C7_DisallowedNeverFetched ==
  \A u \in PageURLs :
    ~can_fetch(rp, u) => fetches[u] = 0 /\ u \notin WrittenURLs

\* a finished session below its page budget, with a parsed robots.txt that
\* disallows a seeded URL, and with pages written
C7_Witness ==
  /\ phase = "DONE"
  /\ robots_fetch = "ok"
  /\ PageB \in seed_urls
  /\ ~can_fetch(rp, PageB)
  /\ count < max_pages
  /\ Len(pages) >= 2

\* C8: an exception of one extractor does not leave the loop: the session
\* is never aborted, and every page fetched has its PageRecord and is in seen.
C8_ExtractorFailureContained ==
  /\ phase # "ABORTED"
  /\ \A u \in PageURLs : fetches[u] > 0 => u \in WrittenURLs /\ u \in seen

\* C9: the PageRecords are written in order of depth, and a URL that got into
\* depth_map through the links of a page is written after that page.
C9_BfsOrder ==
  /\ \A i, j \in 1..Len(pages) :
       i < j => depth_map[pages[i].url] <= depth_map[pages[j].url]
  /\ \A j \in 1..Len(pages) :
       found_on[pages[j].url] # NoPage =>
         \E i \in 1..(j - 1) : pages[i].url = found_on[pages[j].url]

\* three records: two seeds, then a page found through the links of the
\* second seed
C9_Witness ==
  /\ Len(pages) = 3
  /\ depth_map[pages[2].url] = 0
  /\ depth_map[pages[3].url] = 1
  /\ found_on[pages[3].url] = pages[2].url

\* C10: the session always reaches the end: the loop is left and the summary
\* is written.
C10_SessionCompletes == <>(phase = "DONE" /\ summary.written)

\* (checked beside C10, under FairSpec) the loop itself always ends: the
\* session finishes or is aborted by the exception of C8
SessionEnds == <>(phase \in {"DONE", "ABORTED"})

\* the loop has been left: by its condition, or by an exception
LoopLeft == phase \in {"SCORING", "DONE", "ABORTED"}

\* C11: never more than max_pages PageRecords; the loop is left only with an
\* empty queue or with count = max_pages; with max_pages = 0 nothing is
\* fetched, pages.jsonl is empty and summary.pages_crawled = 0.
C11_PageBudget ==
  /\ Len(pages) <= max_pages
  /\ LoopLeft => (q = <<>> \/ count = max_pages)
  /\ max_pages = 0 =>
       /\ \A u \in PageURLs : fetches[u] = 0
       /\ pages = <<>>
       /\ summary.written => summary.pages_crawled = 0

\* (checked beside C11) what of C11 does not depend on how the loop is left
PageBudgetKept ==
  /\ Len(pages) <= max_pages
  /\ phase \in {"SCORING", "DONE"} => (q = <<>> \/ count = max_pages)
  /\ max_pages = 0 =>
       /\ \A u \in PageURLs : fetches[u] = 0
       /\ pages = <<>>
       /\ summary.written => summary.pages_crawled = 0

\* the number of entries of the queue qq that are u
QCount(qq, u) == Cardinality({i \in 1..Len(qq) : qq[i] = u})

\* C12 as stated: every entry of the queue is on the target host, at most
\* max_depth deep, not visited and permitted by the robots policy.
C12_QueueAdmission ==
  \A u \in Range(q) :
    /\ same_host(u, domain)
    /\ Depth(depth_map, u) <= max_depth
    /\ u \notin seen
    /\ can_fetch(rp, u)

\* what the queue does guarantee: every entry is on the target host and has
\* a depth of at most max_depth + 1; what was fetched was at most max_depth
\* deep and permitted
QueueEntriesAdmitted ==
  /\ \A u \in Range(q) :
       /\ same_host(u, domain)
       /\ depth_map[u] # NoDepth
       /\ depth_map[u] <= max_depth + 1
  /\ \A u \in PageURLs :
       fetches[u] > 0 => depth_map[u] <= max_depth /\ can_fetch(rp, u)

\* C12 (amended): a URL is put on the queue only if it is on the target host
\* and not in the visited set at that moment, with a depth of at most
\* max_depth + 1; depth and robots are checked when an entry is taken off
\* the queue, so that nothing deeper than max_depth or disallowed is fetched.
C12_AdmissionAtEnqueue ==
  /\ []QueueEntriesAdmitted
  /\ [][\A u \in PageURLs : QCount(q', u) > QCount(q, u) => u \notin seen]_vars

\* pages have been written and the queue holds an entry deeper than
\* max_depth, an entry robots.txt disallows and an entry already visited
C12_Witness ==
  /\ phase = "CRAWLING"
  /\ pages # <<>>
  /\ \E u \in Range(q) : depth_map[u] > max_depth
  /\ \E u \in Range(q) : rp.last_checked /\ ~can_fetch(rp, u)
  /\ \E u \in Range(q) : u \in seen

\* the record is what the "non-HTML or error" branch writes, and its URL is
\* visited and gave no URL its depth
RecordedBare(i) ==
  /\ ~pages[i].extracted
  /\ ~pages[i].rich
  /\ pages[i].extraction_notes # <<>>
  /\ pages[i].url \in seen
  /\ \A u \in PageURLs : found_on[u] # pages[i].url

\* the step that wrote the last record took one entry off the queue, put
\* none on it, counted the page and stayed in the loop
BareStep ==
  /\ q' = Tail(q)
  /\ seen' = seen \cup {Head(q)}
  /\ count' = count + 1
  /\ phase' = "CRAWLING"

\* C13 as stated: the record of a fetch that raised or returned a status
\* outside 2xx is a bare one with a note, its URL is visited and counted,
\* no link of it is queued and the loop goes on.
C13_FailedFetchRecorded ==
  /\ \A i \in 1..Len(pages) :
       pages[i].status \in {"none", "non2xx", "3xx"} => RecordedBare(i)
  /\ count = Len(pages)

\* C13 (amended): the same for a fetch that raised or returned a status of
\* 400 or above (resp.ok false); a 3xx answer that is not followed counts
\* as a success.
C13_FailureStillRecorded ==
  /\ [](/\ \A i \in 1..Len(pages) :
             pages[i].status \in {"none", "non2xx"} => RecordedBare(i)
        /\ count = Len(pages))
  /\ [][(Len(pages') = Len(pages) + 1
          /\ pages'[Len(pages')].status \in {"none", "non2xx"}) => BareStep]_vars

\* a request that raised, then a 404, then a third record
C13_Witness ==
  /\ Len(pages) = 3
  /\ pages[1].kind = "err"
  /\ pages[2].kind = "non2xx"
  /\ count = 3
  /\ pages[2].url \in seen

\* C14: a 2xx response that is not text/html, with or without a body, gets
\* the bare record of the else branch: no extractor ran on it and none of
\* its links was queued.
C14_NonHtmlSkipsExtraction ==
  \A i \in 1..Len(pages) :
    pages[i].kind \in {"empty2xx", "body2xx"} =>
      /\ ~pages[i].extracted
      /\ pages[i].status = "2xx"
      /\ \A u \in PageURLs : found_on[u] # pages[i].url

\* the targets of the anchors of the page in the hands of find_links
LinkTargets == {norm_url(lk_anchors[i]) : i \in 1..Len(lk_anchors)}

\* C17: once the edge rows of a page are written, each target has as many
\* rows as the page has anchors leading to it.
C17_OneRowPerOccurrence ==
  phase = "EDGES_WRITTEN" =>
    \A t \in LinkTargets :
      Cardinality({i \in 1..Len(lk_rows) : lk_rows[i].to_url = t})
        = Cardinality({i \in 1..Len(lk_anchors) : norm_url(lk_anchors[i]) = t})

\* (checked beside C17) what the rows do satisfy: one row for each distinct
\* target, from the page, internal targets first
EdgeRowsDistinct ==
  phase = "EDGES_WRITTEN" =>
    /\ {lk_rows[i].to_url : i \in 1..Len(lk_rows)} = LinkTargets
    /\ Len(lk_rows) = Cardinality(LinkTargets)
    /\ \A i \in 1..Len(lk_rows) : lk_rows[i].from_url = lk_page

\* the outermost parse_sitemaps call is about to return
SitemapsResolved ==
  /\ phase = "SEEDING"
  /\ Len(sm_stack) = 1
  /\ Top.sms = <<>>
  /\ Top.locs = <<>>

\* C15: whatever sitemap could not be fetched or parsed, parse_sitemaps
\* returns: by then it has fetched every sitemap of sitemap_urls and every
\* child an index listed, and it returns every URL any urlset gave; those
\* URLs are in seed_urls when the crawl starts, and no exception that ends
\* the session comes from the sitemaps.
C15_SitemapFailureIsLocal ==
  /\ SitemapsResolved =>
       /\ sitemap_urls \cup sm_listed \subseteq sm_fetched
       /\ Top.urls = sm_yield
  /\ phase \in {"CRAWLING", "SCORING", "DONE", "ABORTED"} => sm_yield \subseteq seed_urls
  /\ phase = "ABORTED" => \E u \in PageURLs : fetches[u] > 0

\* parse_sitemaps is about to return the URLs of one sitemap although the
\* other sitemap of robots.txt could not be read
C15_Witness ==
  /\ SitemapsResolved
  /\ sitemap_urls = {SM1, SM2}
  /\ sm_skipped # {}
  /\ sm_skipped # sm_fetched
  /\ Top.urls # {}

\* the same-host URLs that the urlsets, the priority paths and the homepage
\* contribute to the seeds
ContributedSeeds ==
  {u \in sm_yield \cup {urljoin(domain, priority_paths[i]) : i \in 1..Len(priority_paths)}
                  \cup {homepage} : same_host(u, domain)}

\* C16: the step that primes the queue puts each contributed same-host URL
\* on it exactly once, with depth 0, and nothing else.
C16_SeededOnce ==
  [][(phase = "SEEDING" /\ phase' = "CRAWLING") =>
       \A u \in PageURLs :
         IF u \in ContributedSeeds
         THEN QCount(q', u) = 1 /\ depth_map'[u] = 0
         ELSE QCount(q', u) = 0 /\ depth_map'[u] = NoDepth]_vars

\* the queue has just been primed with three seeds: both urlsets were read
\* (each lists /a, one lists /b) and /b is a priority path as well
C16_Witness ==
  /\ phase = "CRAWLING"
  /\ pages = <<>>
  /\ \A u \in PageURLs : fetches[u] = 0
  /\ sm_yield = {PageA, PageB, Ext}
  /\ PageB \in {urljoin(domain, priority_paths[i]) : i \in 1..Len(priority_paths)}
  /\ Len(q) = 3
  /\ \A u \in Range(q) : depth_map[u] = 0

\* C18: whatever the aggregated signals, the score either scorer returns is
\* an integer from 0 to 100.
C18_ScoresWithinRange ==
  sc_result.returned => sc_result.score \in 0..100

\* score_industry_comparison has returned 100 for signals whose parts add up
\* to 105: every page and row has every signal, and both bonuses apply
C18_Witness ==
  /\ sc_result.returned
  /\ sc_result.score = 100
  /\ sc_call.fn = "industry"
  /\ sc_call.n_pages = MaxScored /\ sc_call.n_rows = MaxScored
  /\ sc_call.title_ok = MaxScored /\ sc_call.desc_ok = MaxScored
  /\ sc_call.og_ok = MaxScored /\ sc_call.ld_ok = MaxScored
  /\ sc_call.mv_ok = MaxScored /\ sc_call.fast_ok = MaxScored
  /\ sc_call.sitemap_found /\ sc_call.robots_found

\* C19: the industry score of the summary holds the sitemap bonus only if
\* some sitemap of the site was read and the robots bonus only if a
\* robots.txt was parsed, and the summary reports a sitemap as present only
\* in the first case.
C19_BonusesOnlyWhenPresent ==
  summary.written =>
    /\ summary.industry_score = SessionIndustryScore(sm_read, rp.last_checked)
    /\ summary.sitemap_present = sm_read

\* (checked beside C19) what the summary does report: the sitemap bonus and
\* sitemap_present in every session, since sitemap_urls is never empty
SitemapBonusAlways ==
  summary.written =>
    /\ sitemap_urls # {}
    /\ summary.sitemap_present
    /\ summary.industry_score = SessionIndustryScore(TRUE, robots_found)


\* the FAQPage items of the parsable script blocks, in document order
RECURSIVE FaqBlocks(_)
FaqBlocks(scripts) ==
  IF scripts = <<>> THEN <<>>
  ELSE (IF Head(scripts).parsed THEN SelectSeq(Head(scripts).items, IsFaqItem) ELSE <<>>)
       \o FaqBlocks(Tail(scripts))

\* the (name, acceptedAnswer.text) pairs of a mainEntity, in order, with the
\* white space around each string removed
PairsOf(me) ==
  CASE me.form = "absent" -> <<>>
    [] me.form = "single" -> <<QaOf(me.entity)>>
    [] OTHER -> [i \in 1..Len(me.entities) |-> QaOf(me.entities[i])]

\* C21: when the page has a parsable ld+json block of type FAQPage,
\* detect_faq returns faq_detected = true with the pairs of the first such
\* block's mainEntity, in order, and does not reach the Q:/A: fallback.
C21_FaqFromStructuredData ==
  (phase = "FAQ_DONE" /\ FaqBlocks(fq_scripts) # <<>>) =>
    /\ fq_result.detected
    /\ fq_result.qas = PairsOf(FaqBlocks(fq_scripts)[1].mainEntity)
    /\ ~fq_result.heuristic

\* (checked beside C21) the same holds for the first FAQPage block whose
\* mainEntity is missing or a list, when there is one
FaqFromListedEntities ==
  LET ok == SelectSeq(FaqBlocks(fq_scripts), LAMBDA it : it.mainEntity.form # "single")
  IN (phase = "FAQ_DONE" /\ ok # <<>>) =>
       /\ fq_result.detected
       /\ fq_result.qas = PairsOf(ok[1].mainEntity)
       /\ ~fq_result.heuristic

\* the intake file is missing, unreadable or unparsable, or what it holds
\* names no target domain
IntakeUnusable ==
  \/ intake.on_disk \in {"missing", "unreadable"}
  \/ intake.on_disk = "text" /\ (intake.layout = "none" \/ ~intake.valid)
  \/ /\ intake.on_disk = "text" /\ intake.valid
     /\ \/ ~intake.value.object
        \/ intake.value.primary_domain = "" /\ intake.value.domain_key = ""

\* no robots, sitemap or page request has been issued
NothingRequested ==
  /\ robots_fetch = "none"
  /\ sm_fetched = {} /\ sm_skipped = {} /\ ~sm_read
  /\ \A u \in PageURLs : fetches[u] = 0

\* C22: with an intake file that is missing, unreadable or unparsable, or
\* that names no target domain, the run never gets past the __main__
\* block: no request is issued, no output file or
\* directory is created or truncated, and nothing is written.
C22_IntakeFatal ==
  IntakeUnusable =>
    /\ phase \in {"MAIN", "FATAL"}
    /\ NothingRequested
    /\ created = {} /\ open_files = {}
    /\ pages = <<>> /\ ~summary.written

\* the run was aborted on a well-formed JSON object without a domain
C22_Witness ==
  /\ phase = "FATAL"
  /\ intake.on_disk = "text" /\ intake.layout = "pure"
  /\ intake.value.object
  /\ intake.value.primary_domain = "" /\ intake.value.domain_key = ""
  /\ NothingRequested /\ created = {}

\* the page fetches the crawl loop has issued
FetchCount == fetches[Home] + fetches[PageA] + fetches[PageB] + fetches[Ext]

\* the order of the phases of a session
PhaseOrder ==
  {<<"INIT", "SEEDING">>, <<"SEEDING", "CRAWLING">>, <<"CRAWLING", "SCORING">>,
   <<"SCORING", "DONE">>}

\* C23: the phase changes only along INIT -> SEEDING -> CRAWLING -> SCORING
\* -> DONE; no page is fetched before the seeding is complete; once
\* CRAWLING is left the four writers are closed and no page is fetched,
\* queued or written; the API inventory and the summary are written once,
\* in SCORING.
C23_PhaseOrder ==
  /\ [][phase' # phase => <<phase, phase'>> \in PhaseOrder]_vars
  /\ [](FetchCount > 0 => phase \notin {"INIT", "SEEDING"} /\ sm_stack = <<>>)
  /\ [](phase \notin {"INIT", "SEEDING", "CRAWLING"} => open_files = {})
  /\ [][phase \notin {"INIT", "SEEDING", "CRAWLING"} =>
          UNCHANGED <<q, fetches, pages, depth_map, seen, count>>]_vars
  /\ [][(summary' # summary \/ "api_endpoints" \in created' \ created) =>
          /\ phase = "SCORING" /\ phase' = "DONE"
          /\ ~summary.written /\ summary'.written
          /\ {"api_endpoints", "summary"} \subseteq created' \ created]_vars

\* (checked beside C23) the same, except that CRAWLING may also be left by
\* the exception of C8, which leaves the writers open
PhaseOrderUnlessAborted ==
  /\ [][phase' # phase => <<phase, phase'>> \in PhaseOrder \cup {<<"CRAWLING", "ABORTED">>}]_vars
  /\ [](FetchCount > 0 => phase \notin {"INIT", "SEEDING"} /\ sm_stack = <<>>)
  /\ [](phase \in {"SCORING", "DONE"} => open_files = {})
  /\ [](phase = "CRAWLING" => open_files = Writers)
  /\ [][phase \notin {"INIT", "SEEDING", "CRAWLING"} =>
          UNCHANGED <<q, fetches, pages, depth_map, seen, count>>]_vars
  /\ [][(summary' # summary \/ "api_endpoints" \in created' \ created) =>
          /\ phase = "SCORING" /\ phase' = "DONE"
          /\ ~summary.written /\ summary'.written
          /\ {"api_endpoints", "summary"} \subseteq created' \ created]_vars

\* C24: between two iterations of the loop no delay is owed: every page
\* fetch, whatever it returned, has been followed by one call of
\* time.sleep, so that exactly as many delays as page fetches have been
\* taken; the fetches of robots.txt and of the sitemaps, which go through
\* fetch() as well, have added none.
C24_DelayAfterEveryFetch ==
  /\ ~owed
  /\ delays = FetchCount
  /\ phase \in {"INIT", "SEEDING"} => delays = 0

\* three pages were fetched, one HTML, one that is not HTML and one whose
\* request raised, after sitemaps were fetched; three delays were taken
C24_Witness ==
  /\ Len(pages) = 3
  /\ \E i \in 1..3 : pages[i].kind = "html"
  /\ \E i \in 1..3 : pages[i].kind = "empty2xx"
  /\ \E i \in 1..3 : pages[i].kind = "err"
  /\ sm_read
  /\ delays = 3

\* no two entries of the list have the same (source, type, endpoint)
DistinctKeys(items) ==
  \A i, j \in 1..Len(items) : HintKey(items[i]) = HintKey(items[j]) => i = j

\* the entries are the first occurrences of their keys in the list
\* discovered, in the order of that list
FirstOccurrences(items) ==
  /\ {HintKey(items[i]) : i \in 1..Len(items)}
       = {HintKey(ap_discovered[i]) : i \in 1..Len(ap_discovered)}
  /\ \A i \in 1..Len(items) :
       /\ ap_discovered[items[i].at].hint = items[i].hint
       /\ \A k \in 1..(items[i].at - 1) : HintKey(ap_discovered[k]) # HintKey(items[i])
  /\ \A i, j \in 1..Len(items) : i < j => items[i].at < items[j].at

\* C25: once the de-duplication is done the inventory holds one entry for
\* each (source, type, endpoint), the first occurrence; the sampling pass,
\* which starts after it, probes no such triple twice; and api_endpoints.json
\* holds that inventory.
C25_HintsDedupedBeforeSampling ==
  /\ phase = "API" => ap_samples = <<>> /\ ap_written = NoFile
  /\ phase \in {"API_SAMPLING", "API_WRITTEN"} =>
       /\ DistinctKeys(ap_inventory)
       /\ FirstOccurrences(ap_inventory)
       /\ DistinctKeys(ap_samples)
  /\ phase = "API_WRITTEN" =>
       /\ ap_written.written
       /\ ap_written.discovered = ap_inventory
       /\ Len(ap_samples) = LastSampled

\* api_endpoints.json is written: three hints were found, two of them the
\* same, and the two entries left were probed, one of them giving JSON
C25_Witness ==
  /\ phase = "API_WRITTEN"
  /\ Len(ap_discovered) = 3
  /\ Len(ap_written.discovered) = 2
  /\ Len(ap_samples) = 2
  /\ \E i \in 1..2 :
       /\ "content_type" \in DOMAIN ap_written.discovered[i]
       /\ ap_written.discovered[i].content_type = "application/json"

\* C26: a step never changes a depth_map entry that exists; an entry is
\* made with 0 when the queue is primed and with the depth of the page
\* being processed plus one when a link is queued.
C26_DepthFixedAtFirstEnqueue ==
  [][\A u \in PageURLs :
       IF depth_map[u] # NoDepth
       THEN depth_map'[u] = depth_map[u]
       ELSE \/ depth_map'[u] = NoDepth
            \/ phase = "SEEDING" /\ depth_map'[u] = 0
            \/ phase = "CRAWLING" /\ depth_map'[u] = depth_map[Head(q)] + 1]_vars

\* a seed of depth 0 is in the queue twice: it was found again among the
\* links of a page of depth 0, and a link of depth 1 is queued as well
C26_Witness ==
  /\ phase = "CRAWLING"
  /\ pages # <<>>
  /\ \E u \in PageURLs : QCount(q, u) >= 2 /\ depth_map[u] = 0 /\ u \notin seen
  /\ \E u \in Range(q) : depth_map[u] = 1

\* C30: an iteration that takes from the queue a URL that is visited,
\* deeper than max_depth or refused by rp.can_fetch removes that entry and
\* changes nothing else: nothing is fetched, no delay is taken, nothing is
\* written, and seen, depth_map and count stay as they are.
C30_SkipChangesQueueOnly ==
  [][(/\ phase = "CRAWLING"
      /\ q # <<>> /\ count < max_pages
      /\ \/ Head(q) \in seen
         \/ Depth(depth_map, Head(q)) > max_depth
         \/ ~can_fetch(rp, Head(q)))
       => /\ q' = Tail(q)
          /\ UNCHANGED <<phase, config, robots, sitemaps, seed_urls, seen, depth_map,
                         count, pages, fetches, found_on, aside, run, politeness,
                         summary>>]_vars

\* the loop was left with an empty queue below the page budget, after pages
\* were written; a URL deeper than max_depth and a seed that robots.txt
\* disallows were taken from the queue and have no record
C30_Witness ==
  /\ phase = "SCORING"
  /\ count < max_pages
  /\ pages # <<>>
  /\ \E u \in PageURLs : depth_map[u] > max_depth /\ u \notin seen
  /\ \E u \in PageURLs : depth_map[u] = 0 /\ rp.last_checked /\ ~can_fetch(rp, u) /\ u \notin seen
  /\ delays = Len(pages)

\* the URLs the crawl has to cover: the same-host seeds, and the URLs that
\* got their depth through the links of an extracted page less than
\* max_depth deep (a link to a URL that has a depth already leads to a seed,
\* to such a URL or to a visited one)
ToCover ==
  {u \in seed_urls : same_host(u, domain)}
  \cup {u \in PageURLs : found_on[u] # NoPage /\ depth_map[found_on[u]] < max_depth}

\* C29: when the loop is left below the page budget, every URL to cover
\* that rp.can_fetch permits has a PageRecord.
C29_CrawlComplete ==
  (LoopLeft /\ count < max_pages) =>
    \A u \in ToCover : can_fetch(rp, u) => u \in WrittenURLs

\* (checked beside C29) the same for a loop left through its condition
CompleteUnlessAborted ==
  (phase \in {"SCORING", "DONE"} /\ count < max_pages) =>
    \A u \in ToCover : can_fetch(rp, u) => u \in WrittenURLs

\* C27: once stop_monitoring() has been called on a checker whose
\* start_monitoring() was scheduled as a task, the task eventually completes and
\* running is false from then on, whenever the call falls between the task's steps
C27_StopEndsMonitoring ==
  [](hc_stop_at # "never" => <>[](hc_task = "done" /\ ~hc_running))

\* beside C27: a stop that comes after the task's first step does end the task
StopAfterFirstStepEnds ==
  [](hc_stop_at = "sleeping" => <>[](hc_task = "done" /\ ~hc_running))

\* beside C27: a stop that comes before the task's first step is undone by it
StopBeforeFirstStepLost ==
  hc_stop_at = "scheduled" /\ hc_task # "scheduled" => hc_running /\ hc_task = "sleeping"

\* the mean of the agents' confidences lies strictly between 0 and 1
MeanInside ==
  /\ cf_agents # <<>>
  /\ 0 < SumOf(cf_agents)
  /\ SumOf(cf_agents) < 100 * Len(cf_agents)

\* C28: for the same non-empty agent responses, of a mean confidence strictly
\* between 0 and 1, the overall confidence computed with one or more conflict
\* resolutions is strictly lower than the one computed with none, whatever the
\* resolutions' confidences, and both results lie in [0, 1]
C28_ConflictsLowerConfidence ==
  /\ cf_plain.returned => ~FracLess(cf_plain.value, Frac(0, 1))
                          /\ ~FracLess(Frac(100, 1), cf_plain.value)
  /\ cf_resolved.returned => ~FracLess(cf_resolved.value, Frac(0, 1))
                             /\ ~FracLess(Frac(100, 1), cf_resolved.value)
  /\ cf_plain.returned /\ cf_resolved.returned /\ MeanInside
       => FracLess(cf_resolved.value, cf_plain.value)

\* beside C28: every result lies in [0, 1], and no agent response gives 0
ConfidenceInUnitInterval ==
  /\ cf_plain.returned => ~FracLess(cf_plain.value, Frac(0, 1))
                          /\ ~FracLess(Frac(100, 1), cf_plain.value)
                          /\ (cf_agents = <<>> => cf_plain.value.num = 0)
  /\ cf_resolved.returned => ~FracLess(cf_resolved.value, Frac(0, 1))
                             /\ ~FracLess(Frac(100, 1), cf_resolved.value)
                             /\ (cf_agents = <<>> => cf_resolved.value.num = 0)

\* beside C28: the resolutions lower the confidence exactly when the tenth of
\* their mean confidence is below the penalty of 0.05 apiece
LowerExactlyWhenBonusBelowPenalty ==
  cf_plain.returned /\ cf_resolved.returned /\ MeanInside
    => (FracLess(cf_resolved.value, cf_plain.value)
          <=> SumOf(cf_resolutions) < 50 * Len(cf_resolutions) * Len(cf_resolutions))
====
